---- MODULE Spec2Model ----
(***************************************************************************)
(* Model of lib/parser.py of p2obp: the night-plan parser.                 *)
(*                                                                         *)
(*   get_file_section              lines 64-93                             *)
(*   get_targets_calibrators_tags  lines 96-159                            *)
(*   parse_night_plan              lines 162-215                           *)
(*                                                                         *)
(* Python strings are TLA+ strings; a Python list is a sequence; a Python  *)
(* exception is a value of the variable error (or the err field of the     *)
(* result of a pure function).                                             *)
(***************************************************************************)
EXTENDS Integers, Sequences, FiniteSets, TLC

(***************************************************************************)
(* Python string primitives, computed character by character.              *)
(***************************************************************************)

\* s[i] of Python, 1-based here
Ch(s, i) == SubSeq(s, i, i)

\* str.isdigit() of a single character
IsDigit(c) == c \in {"0", "1", "2", "3", "4", "5", "6", "7", "8", "9"}

\* the characters str.split() and str.strip() treat as whitespace
IsSpace(c) == c \in {" ", "\n", "\t", "\r"}

UpperLetters == "ABCDEFGHIJKLMNOPQRSTUVWXYZ"

LowerLetters == "abcdefghijklmnopqrstuvwxyz"

UpperSet == {Ch(UpperLetters, k) : k \in 1..Len(UpperLetters)}

\* the lower-case letter of each upper-case letter
LowerOf ==
    [c \in UpperSet |->
        Ch(LowerLetters, CHOOSE k \in 1..Len(UpperLetters) : Ch(UpperLetters, k) = c)]

\* str.lower() of a single character
LowerChar(c) == IF c \in UpperSet THEN LowerOf[c] ELSE c

RECURSIVE LowerFrom(_, _)
LowerFrom(s, i) ==
    IF i > Len(s) THEN "" ELSE LowerChar(Ch(s, i)) \o LowerFrom(s, i + 1)

\* str.lower()
Lower(s) == LowerFrom(s, 1)

\* sub in s, for strings
Contains(sub, s) ==
    \E i \in 1..(Len(s) - Len(sub) + 1) : SubSeq(s, i, i + Len(sub) - 1) = sub

RECURSIVE SplitOnAcc(_, _, _, _, _)
SplitOnAcc(s, sep, i, cur, acc) ==
    IF i > Len(s) THEN Append(acc, cur)
    ELSE IF Ch(s, i) = sep
         THEN SplitOnAcc(s, sep, i + 1, "", Append(acc, cur))
         ELSE SplitOnAcc(s, sep, i + 1, cur \o Ch(s, i), acc)

\* s.split(sep) for a one-character separator: empty fields are kept
SplitOn(s, sep) == SplitOnAcc(s, sep, 1, "", <<>>)

RECURSIVE SplitWsAcc(_, _, _, _)
SplitWsAcc(s, i, cur, acc) ==
    IF i > Len(s) THEN (IF cur = "" THEN acc ELSE Append(acc, cur))
    ELSE IF IsSpace(Ch(s, i))
         THEN SplitWsAcc(s, i + 1, "", IF cur = "" THEN acc ELSE Append(acc, cur))
         ELSE SplitWsAcc(s, i + 1, cur \o Ch(s, i), acc)

\* s.split(): runs of whitespace separate, no empty token
SplitWs(s) == SplitWsAcc(s, 1, "", <<>>)

RECURSIVE StripLeft(_)
StripLeft(s) ==
    IF s # "" /\ IsSpace(Ch(s, 1)) THEN StripLeft(SubSeq(s, 2, Len(s))) ELSE s

RECURSIVE StripRight(_)
StripRight(s) ==
    IF s # "" /\ IsSpace(Ch(s, Len(s))) THEN StripRight(SubSeq(s, 1, Len(s) - 1)) ELSE s

\* s.strip()
Strip(s) == StripRight(StripLeft(s))

RECURSIVE RemoveNewlinesFrom(_, _)
RemoveNewlinesFrom(s, i) ==
    IF i > Len(s) THEN ""
    ELSE (IF Ch(s, i) = "\n" THEN "" ELSE Ch(s, i)) \o RemoveNewlinesFrom(s, i + 1)

\* s.replace('\n', '')
RemoveNewlines(s) == RemoveNewlinesFrom(s, 1)

\* the positions where a line of the text ends: each newline, and the last
\* character when the text does not end with one
LineEnds(text) ==
    {i \in 1..Len(text) : Ch(text, i) = "\n"}
    \cup (IF text # "" /\ Ch(text, Len(text)) # "\n" THEN {Len(text)} ELSE {})

\* f.readlines(): every line keeps its newline; a last line without one is kept
Readlines(text) ==
    LET ends == LineEnds(text)
        End(k) == CHOOSE e \in ends : Cardinality({x \in ends : x <= e}) = k
        Start(k) == IF k = 1 THEN 1 ELSE End(k - 1) + 1
    IN  [k \in 1..Cardinality(ends) |-> SubSeq(text, Start(k), End(k))]


(***************************************************************************)
(* Python lists, slices and dicts.                                         *)
(***************************************************************************)

\* lst[k] for a 0-based Python index k that is in range
At(lst, k) == lst[k + 1]

\* lst[a:b] for 0 <= a, 0 <= b (an empty list when b <= a)
Slice(lst, a, b) == SubSeq(lst, a + 1, IF b > Len(lst) THEN Len(lst) ELSE b)

\* a dict is the sequence of its (key, value) items in insertion order
DictKeys(d) == [k \in 1..Len(d) |-> d[k].key]

DictHas(d, key) == \E k \in 1..Len(d) : d[k].key = key

\* d[key] = value: an existing key keeps its place and takes the new value
DictSet(d, key, value) ==
    IF DictHas(d, key)
    THEN [k \in 1..Len(d) |-> IF d[k].key = key THEN [key |-> key, value |-> value] ELSE d[k]]
    ELSE Append(d, [key |-> key, value |-> value])

DictGet(d, key) == d[CHOOSE k \in 1..Len(d) : d[k].key = key].value

RECURSIVE DictFromZip(_, _, _, _)
DictFromZip(labels, sections, k, d) ==
    IF k > Len(labels) \/ k > Len(sections) THEN d
    ELSE DictFromZip(labels, sections, k + 1, DictSet(d, labels[k], sections[k]))

\* the outcome of a call: err is "none" or the name of the exception raised
Returned(value) == [err |-> "none", val |-> value]

Raised(exception) == [err |-> exception, val |-> <<>>]

(***************************************************************************)
(* contains_element, lines 46-61                                           *)
(***************************************************************************)

\* contains_element testing for a substring of an element instead of equality
contains_element_Substring(list_to_search, element_to_search) ==
    \E k \in 1..Len(list_to_search) : Contains(element_to_search, list_to_search[k])

contains_element(list_to_search, element_to_search) ==
    \E k \in 1..Len(list_to_search) : element_to_search = list_to_search[k]

(***************************************************************************)
(* get_file_section, lines 64-93                                           *)
(***************************************************************************)

\* line 83: the identifier occurs in the lowered line and is its first token
IsMarker(line, identifier) ==
    /\ Contains(identifier, Lower(line))
    /\ Lower(SplitWs(line)[1]) = identifier

RECURSIVE MarkerIndicesFrom(_, _, _)
MarkerIndicesFrom(lines, identifier, index) ==
    IF index >= Len(lines) THEN <<>>
    ELSE (IF IsMarker(At(lines, index), identifier) THEN <<index>> ELSE <<>>)
         \o MarkerIndicesFrom(lines, identifier, index + 1)

\* lines 81-84: the 0-based indices of the marker lines, in order
MarkerIndices(lines, identifier) == MarkerIndicesFrom(lines, identifier, 0)

\* line 85: the label of each marker line
MarkerLabels(lines, indices) ==
    [k \in 1..Len(indices) |-> RemoveNewlines(At(lines, indices[k]))]

\* SectionAt without the special case of a single index
SectionAt_AlwaysNext(lines, indices, i) ==
    IF i + 1 >= Len(indices)
    THEN Raised("IndexError")
    ELSE Returned(Slice(lines, At(indices, i), At(indices, i + 1)))

\* lines 90-91, one element of the comprehension: i is the 0-based position
SectionAt(lines, indices, i) ==
    IF Len(indices) = 1
    THEN Returned(Slice(lines, At(indices, i), Len(lines)))
    ELSE IF i + 1 >= Len(indices)
         THEN Raised("IndexError")
         ELSE Returned(Slice(lines, At(indices, i), At(indices, i + 1)))

\* lines 90-91: the comprehension raises as soon as one element raises
Sections(lines, indices) ==
    IF \E i \in 0..(Len(indices) - 1) : SectionAt(lines, indices, i).err # "none"
    THEN Raised("IndexError")
    ELSE Returned([k \in 1..Len(indices) |-> SectionAt(lines, indices, k - 1).val])

get_file_section(lines, identifier) ==
    LET found   == MarkerIndices(lines, identifier)
        indices == IF found = <<>> THEN <<0>> ELSE found
        labels  == IF found = <<>> THEN <<"full_" \o identifier>>
                   ELSE MarkerLabels(lines, found)
        sections == Sections(lines, indices)
    IN  IF sections.err # "none" THEN sections
        ELSE Returned(DictFromZip(labels, sections.val, 1, <<>>))

(***************************************************************************)
(* get_targets_calibrators_tags, lines 96-159                              *)
(***************************************************************************)

\* line 109: line[0] raises on an empty line; [...][0] raises on an empty list
LineStartRaises(lines) ==
    \/ \E k \in 1..Len(lines) : lines[k] = ""
    \/ ~\E k \in 1..Len(lines) : IsDigit(Ch(lines[k], 1))

\* line 109: the 0-based index of the first line whose first character is a digit
LineStart(lines) ==
    (CHOOSE k \in 1..Len(lines) :
        /\ IsDigit(Ch(lines[k], 1))
        /\ \A j \in 1..(k - 1) : ~IsDigit(Ch(lines[j], 1))) - 1

\* line 110: [...][0] raises when no line holds the invocation marker
LineEndRaises(lines) ==
    ~\E k \in 1..Len(lines) : Contains("calibrator_find", lines[k])

\* line 110: the 0-based index of the first line holding the invocation marker
LineEnd(lines) ==
    (CHOOSE k \in 1..Len(lines) :
        /\ Contains("calibrator_find", lines[k])
        /\ \A j \in 1..(k - 1) : ~Contains("calibrator_find", lines[j])) - 1

\* line 111: the bounded interval, its blank lines normalised to ''
BoundedLines(lines) ==
    LET cut == Slice(lines, LineStart(lines), LineEnd(lines))
    IN  [k \in 1..Len(cut) |-> IF cut[k] = "\n" THEN "" ELSE cut[k]]

\* s.split()[0] raises IndexError when s has no token
FirstTokenRaises(s) == SplitWs(s) = <<>>

\* s.split()[0][0].isdigit()
FirstTokenIsDigit(s) == IsDigit(Ch(SplitWs(s)[1], 1))

\* LookAhead without the test of line 142
LookAhead_NoGuard(lines, index) ==
    /\ index + 1 < Len(lines)
    /\ At(lines, index + 1) # ""
    /\ IsDigit(Ch(At(lines, index + 1), 1))
    /\ Len(SplitOn(At(lines, index + 1), " ")) >= 2
    /\ ~Contains("cal_", SplitOn(At(lines, index + 1), " ")[2])
    /\ index + 2 < Len(lines)
    /\ At(lines, index + 2) # ""
    /\ IsDigit(Ch(At(lines, index + 2), 1))

\* lines 142-149: the guarded look-ahead; any IndexError in it leaves the flag
LookAhead(lines, index) ==
    /\ index # Len(lines) - 3
    /\ index + 1 < Len(lines)
    /\ At(lines, index + 1) # ""
    /\ IsDigit(Ch(At(lines, index + 1), 1))
    /\ Len(SplitOn(At(lines, index + 1), " ")) >= 2
    /\ ~Contains("cal_", SplitOn(At(lines, index + 1), " ")[2])
    /\ index + 2 < Len(lines)
    /\ At(lines, index + 2) # ""
    /\ IsDigit(Ch(At(lines, index + 2), 1))

\* lines 117-157: the branch the loop body takes on lines[index]; "skipped" is an
\* exception caught at line 156 before anything was written, "skipped_target" one
\* raised by line[3] at line 152, after the look-ahead
LineKind(lines, index) ==
    LET line == At(lines, index)
        left == line = "" \/ ~FirstTokenIsDigit(line)
        fields == SplitOn(line, " ")
    IN  IF line # "" /\ FirstTokenRaises(line) THEN "skipped"
        ELSE IF left /\ (index + 1 >= Len(lines) \/ FirstTokenRaises(At(lines, index + 1)))
             THEN "skipped"
        ELSE IF left /\ FirstTokenIsDigit(At(lines, index + 1)) THEN "boundary"
        ELSE IF fields[1] = "" THEN "skipped"
        ELSE IF ~(/\ IsDigit(Ch(fields[1], 1))
                  /\ Len(fields) > 2
                  /\ Len(SplitOn(fields[1], ":")) = 2) THEN "ignored"
        ELSE IF Contains("cal_", fields[2])
             THEN (IF Len(SplitOn(fields[2], "_")) < 3 THEN "skipped" ELSE "calibrator")
        ELSE IF Len(fields) < 4 THEN "skipped_target"
        ELSE "target"

\* lines 120-122
GroupBoundary(st) ==
    [st EXCEPT !.counter = st.counter + 1,
               !.cal_lst = Append(st.cal_lst, <<>>),
               !.tag_lst = Append(st.tag_lst, <<>>)]

\* DuplicateCalibrator without line 136: no new group is opened in tag_lst
DuplicateCalibrator_NoTagGroup(st, temp_cal) ==
    LET cal == Append(st.cal_lst, <<>>)
    IN  [st EXCEPT
           !.cal_lst = [cal EXCEPT ![st.counter + 2] = Append(@, At(temp_cal, 2))],
           !.tag_lst = [@ EXCEPT ![st.counter + 1] = Append(@, At(temp_cal, 1))],
           !.double_sci = FALSE]

\* lines 135-139: the calibrator is copied to a new group, the flag cleared
DuplicateCalibrator(st, temp_cal) ==
    LET cal == Append(st.cal_lst, <<>>)
        tag == Append(st.tag_lst, <<>>)
    IN  [st EXCEPT
           !.cal_lst = [cal EXCEPT ![st.counter + 2] = Append(@, At(temp_cal, 2))],
           !.tag_lst = [tag EXCEPT ![st.counter + 2] = Append(@, At(temp_cal, 1))],
           !.double_sci = FALSE]

\* CalibratorRecord with the two parts of temp_cal exchanged
CalibratorRecord_SwapParts(st, line) ==
    LET temp_cal == SplitOn(SplitOn(line, " ")[2], "_")
        appended ==
          [st EXCEPT
             !.cal_lst = [@ EXCEPT ![st.counter + 1] = Append(@, At(temp_cal, 1))],
             !.tag_lst = [@ EXCEPT ![st.counter + 1] = Append(@, At(temp_cal, 2))]]
    IN  IF st.double_sci THEN DuplicateCalibrator(appended, temp_cal) ELSE appended

\* lines 130-139
CalibratorRecord(st, line) ==
    LET temp_cal == SplitOn(SplitOn(line, " ")[2], "_")
        appended ==
          [st EXCEPT
             !.cal_lst = [@ EXCEPT ![st.counter + 1] = Append(@, At(temp_cal, 2))],
             !.tag_lst = [@ EXCEPT ![st.counter + 1] = Append(@, At(temp_cal, 1))]]
    IN  IF st.double_sci THEN DuplicateCalibrator(appended, temp_cal) ELSE appended

\* TargetName joining the first two fields of the name only
TargetName_TwoFields(fields) == Strip(fields[2] \o " " \o fields[3])

\* lines 152-155: the name appended to sci_lst
TargetName(fields) ==
    IF fields[4] # ""
    THEN Strip(fields[2] \o " " \o fields[3] \o " " \o fields[4])
    ELSE Strip(fields[2] \o " " \o fields[3])

\* lines 142-155
TargetRecord(st, lines, index) ==
    [st EXCEPT
       !.double_sci = st.double_sci \/ LookAhead(lines, index),
       !.sci_lst = Append(st.sci_lst, TargetName(SplitOn(At(lines, index), " ")))]

\* lines 142-152: line[3] raises after the look-ahead has run
SkippedTarget(st, lines, index) ==
    [st EXCEPT !.double_sci = st.double_sci \/ LookAhead(lines, index)]

\* lines 117-157: one iteration of the loop
ProcessLine(st, lines, index) ==
    LET kind == LineKind(lines, index)
    IN  CASE kind = "boundary" -> GroupBoundary(st)
          [] kind = "calibrator" -> CalibratorRecord(st, At(lines, index))
          [] kind = "target" -> TargetRecord(st, lines, index)
          [] kind = "skipped_target" -> SkippedTarget(st, lines, index)
          [] OTHER -> st

\* lines 113-114
InitialLists ==
    [sci_lst |-> <<>>, cal_lst |-> << <<>> >>, tag_lst |-> << <<>> >>,
     double_sci |-> FALSE, counter |-> 0]

RECURSIVE WalkFrom(_, _, _)
WalkFrom(st, lines, index) ==
    IF index >= Len(lines) THEN st
    ELSE WalkFrom(ProcessLine(st, lines, index), lines, index + 1)

\* line 159
NightEntry(st) == [SCI |-> st.sci_lst, CAL |-> st.cal_lst, TAG |-> st.tag_lst]

\* the whole call, as parse_night_plan makes it at line 207
get_targets_calibrators_tags(lines) ==
    IF LineStartRaises(lines) \/ LineEndRaises(lines) THEN Raised("IndexError")
    ELSE Returned(NightEntry(WalkFrom(InitialLists, BoundedLines(lines), 0)))

(***************************************************************************)
(* parse_night_plan, lines 162-215: the names it can resolve                *)
(***************************************************************************)

\* lines 38-43, 46, 64, 96, 162: the names bound at module level
ModuleNames ==
    {"os", "yaml", "warnings", "Path", "Dict", "List", "Optional",
     "contains_element", "get_file_section", "get_targets_calibrators_tags",
     "parse_night_plan"}

\* lines 162-165 and 191-209: the parameters and locals of parse_night_plan
LocalNames ==
    {"night_plan_path", "run_identifier", "sub_identifier", "save_to_file",
     "night_plan_dict", "f", "lines", "runs", "label", "section",
     "temp_subsection_dict", "nights", "sub_label", "sub_section", "yaml_file"}

\* a name that is neither local nor global raises NameError when it is read
Resolves(name) == name \in ModuleNames \cup LocalNames

\* lines 163-164: the default identifiers
run_identifier == "run"

sub_identifier == "night"

RECURSIVE NightsFrom(_, _, _)
\* lines 204-207: the nights of one run; a night is classified only when
\* contains_element finds "cal_" among its lines
NightsFrom(items, k, nights) ==
    IF k > Len(items) THEN Returned(nights)
    ELSE IF ~contains_element(items[k].value, "cal_")
         THEN NightsFrom(items, k + 1, nights)
         ELSE LET entry == get_targets_calibrators_tags(items[k].value)
              IN  IF entry.err # "none" THEN entry
                  ELSE NightsFrom(items, k + 1, DictSet(nights, items[k].key, entry.val))

\* lines 202-207: one iteration of the loop over the runs
RunNights(section) ==
    LET temp_subsection_dict == get_file_section(section, sub_identifier)
    IN  IF temp_subsection_dict.err # "none" THEN temp_subsection_dict
        ELSE NightsFrom(temp_subsection_dict.val, 1, <<>>)

RECURSIVE ClassifiedFrom(_, _)
\* line 207: the labels of the nights handed to get_targets_calibrators_tags, up
\* to the first one on which it raises
ClassifiedFrom(items, k) ==
    IF k > Len(items) THEN <<>>
    ELSE IF ~contains_element(items[k].value, "cal_") THEN ClassifiedFrom(items, k + 1)
    ELSE IF get_targets_calibrators_tags(items[k].value).err # "none" THEN <<items[k].key>>
    ELSE <<items[k].key>> \o ClassifiedFrom(items, k + 1)

\* lines 202-207: the nights of one run that reach line 207
RunClassified(section) ==
    LET temp_subsection_dict == get_file_section(section, sub_identifier)
    IN  IF temp_subsection_dict.err # "none" THEN <<>>
        ELSE ClassifiedFrom(temp_subsection_dict.val, 1)

(***************************************************************************)
(* Inputs                                                                  *)
(***************************************************************************)

\* the longest arbitrary night section, before the optional invocation line
MaxLines == 4

\* the most blocks of a block-structured night
MaxBlocks == 3

\* the most lines of a list handed to get_file_section
MaxSectionLines == 4

\* the most lines of a plan file
MaxPlanLines == 4

InvocationLine == "calibrator_find,zoom=3\n"

TargetLine == "1: MY Lup  SCI\n"

SecondTargetLine == "2: Z CMa  SCI\n"

BareTargetLine == "2: MY Lup\n"

CalibratorLine == "1: cal_LN_HD12345 extra\n"

SecondCalibratorLine == "5: cal_L_HD2 extra\n"

ThreeTokenLine == "3: HD 56 Tau\n"

\* the lines an arbitrary night section is made of
NightLines ==
    {TargetLine, BareTargetLine, ThreeTokenLine, CalibratorLine, "5: cal_N x\n",
     "\n", "name  RA\n", InvocationLine}

SeqsUpTo(S, n) == UNION {[1..m -> S] : m \in 0..n}

ArbitrarySections ==
    {body \o tail : body \in SeqsUpTo(NightLines, MaxLines),
                    tail \in {<<>>, <<InvocationLine>>}} \ {<<>>}

ThreeTokenColumnsLine == "3: HD 56 Tau  SCI\n"

\* nights whose first record is a target with a three-token name, alone or
\* followed by a calibrator record
NamedTargetSections ==
    {<<t>> \o rest : t \in {ThreeTokenLine, ThreeTokenColumnsLine},
                     rest \in {<<InvocationLine>>, <<CalibratorLine, InvocationLine>>,
                               <<TargetLine, CalibratorLine, "\n", InvocationLine>>}}

\* a block: one target and its calibrators, or two targets and one calibrator
BlockKinds == {"TC", "TCC", "TTC"}

BlockLines(kind) ==
    CASE kind = "TC"  -> <<TargetLine, CalibratorLine>>
      [] kind = "TCC" -> <<TargetLine, CalibratorLine, SecondCalibratorLine>>
      [] kind = "TTC" -> <<TargetLine, SecondTargetLine, CalibratorLine>>

RECURSIVE JoinBlocks(_, _)
JoinBlocks(blocks, k) ==
    IF k > Len(blocks) THEN <<>>
    ELSE (IF k > 1 THEN <<"\n">> ELSE <<>>) \o BlockLines(blocks[k]) \o JoinBlocks(blocks, k + 1)

\* the night whose tabular block is these blocks, one blank line between two
BlockSection(blocks) == JoinBlocks(blocks, 1) \o <<InvocationLine>>

BlockSeqs == SeqsUpTo(BlockKinds, MaxBlocks) \ {<<>>}

BlockSections == {BlockSection(blocks) : blocks \in BlockSeqs}

\* the lines handed to get_file_section
MarkerLines == {"run 1\n", "Run 2 x\n", "night 1\n", "running late\n", "\n"}

\* the fragments a plan file is made of; "cal_" has no newline
PlanFragments ==
    {"run 1\n", "night 1\n", "night 2\n", CalibratorLine, InvocationLine, "cal_"}

RECURSIVE Concat(_, _)
Concat(parts, k) == IF k > Len(parts) THEN "" ELSE parts[k] \o Concat(parts, k + 1)

PlanTexts == {Concat(parts, 1) : parts \in SeqsUpTo(PlanFragments, MaxPlanLines)}

(***************************************************************************)
(* State                                                                   *)
(***************************************************************************)

VARIABLES
    \* get_targets_calibrators_tags
    section,          \* the argument of the call
    lines,            \* the variable lines: the argument, then the bounded interval
    pc,               \* "bounds", "loop", "done" (returned) or "raised"
    index,            \* the loop variable of line 116
    sci_lst, cal_lst, tag_lst, double_sci, counter,
    kind,             \* the branch taken on the line processed last
    error,            \* the exception that escaped, or "none"
    \* get_file_section
    fs_lines, identifier, fs_pc, subset,
    \* parse_night_plan
    file_exists, file_text, save_to_file,
    plan_pc,          \* "open", "runs", "loop", "save", "returned" or "raised"
    plan_lines, runs, run_pos, night_plan_dict, warned, saved, plan_error,
    classified        \* the labels of the nights that reached line 207, per run

cvars == <<section, lines, pc, index, sci_lst, cal_lst, tag_lst, double_sci,
           counter, kind, error>>

fvars == <<fs_lines, identifier, fs_pc, subset>>

pvars == <<file_exists, file_text, save_to_file, plan_pc, plan_lines, runs,
           run_pos, night_plan_dict, warned, saved, plan_error, classified>>

vars == <<cvars, fvars, pvars>>

ClassifierIdle ==
    /\ section = <<>> /\ lines = <<>> /\ pc = "idle" /\ index = 0
    /\ sci_lst = <<>> /\ cal_lst = <<>> /\ tag_lst = <<>>
    /\ double_sci = FALSE /\ counter = 0 /\ kind = "" /\ error = "none"

SectionerIdle ==
    /\ fs_lines = <<>> /\ identifier = "" /\ fs_pc = "idle" /\ subset = Returned(<<>>)

PlanIdle ==
    /\ file_exists = FALSE /\ file_text = "" /\ save_to_file = FALSE
    /\ plan_pc = "idle" /\ plan_lines = <<>> /\ runs = <<>> /\ run_pos = 0
    /\ night_plan_dict = <<>> /\ warned = FALSE /\ saved = FALSE
    /\ plan_error = "none" /\ classified = <<>>

(***************************************************************************)
(* get_targets_calibrators_tags, step by step                              *)
(***************************************************************************)

St ==
    [sci_lst |-> sci_lst, cal_lst |-> cal_lst, tag_lst |-> tag_lst,
     double_sci |-> double_sci, counter |-> counter]

Store(st) ==
    /\ sci_lst' = st.sci_lst
    /\ cal_lst' = st.cal_lst
    /\ tag_lst' = st.tag_lst
    /\ double_sci' = st.double_sci
    /\ counter' = st.counter

Init ==
    /\ section \in ArbitrarySections \cup BlockSections \cup NamedTargetSections
    /\ lines = section
    /\ pc = "bounds"
    /\ index = 0
    /\ sci_lst = <<>> /\ cal_lst = <<>> /\ tag_lst = <<>>
    /\ double_sci = FALSE /\ counter = 0
    /\ kind = "" /\ error = "none"
    /\ SectionerIdle /\ PlanIdle

\* lines 109-110 raise IndexError: the call ends there
BoundsRaise ==
    /\ pc = "bounds"
    /\ LineStartRaises(lines) \/ LineEndRaises(lines)
    /\ pc' = "raised"
    /\ error' = "IndexError"
    /\ UNCHANGED <<section, lines, index, sci_lst, cal_lst, tag_lst, double_sci,
                   counter, kind>>
    /\ UNCHANGED <<fvars, pvars>>

\* lines 109-114
Bounds ==
    /\ pc = "bounds"
    /\ ~(LineStartRaises(lines) \/ LineEndRaises(lines))
    /\ lines' = BoundedLines(lines)
    /\ Store(InitialLists)
    /\ index' = 0
    /\ pc' = "loop"
    /\ UNCHANGED <<section, kind, error>>
    /\ UNCHANGED <<fvars, pvars>>

\* one iteration of the loop of line 116 that takes branch k
Iteration(k, st) ==
    /\ pc = "loop"
    /\ index < Len(lines)
    /\ LineKind(lines, index) = k
    /\ Store(st)
    /\ kind' = k
    /\ index' = index + 1
    /\ UNCHANGED <<section, lines, pc, error>>
    /\ UNCHANGED <<fvars, pvars>>

Boundary == Iteration("boundary", GroupBoundary(St))

Calibrator == Iteration("calibrator", CalibratorRecord(St, At(lines, index)))

Target == Iteration("target", TargetRecord(St, lines, index))

SkipTarget == Iteration("skipped_target", SkippedTarget(St, lines, index))

Skip == Iteration("skipped", St)

Ignore == Iteration("ignored", St)

\* line 159
Return ==
    /\ pc = "loop"
    /\ index >= Len(lines)
    /\ pc' = "done"
    /\ UNCHANGED <<section, lines, index, sci_lst, cal_lst, tag_lst, double_sci,
                   counter, kind, error>>
    /\ UNCHANGED <<fvars, pvars>>

Next ==
    \/ BoundsRaise
    \/ Bounds
    \/ Boundary
    \/ Calibrator
    \/ Target
    \/ SkipTarget
    \/ Skip
    \/ Ignore
    \/ Return

Spec == Init /\ [][Next]_vars

(***************************************************************************)
(* get_file_section, applied to drawn inputs                               *)
(***************************************************************************)

SectionInit ==
    /\ fs_lines \in SeqsUpTo(MarkerLines, MaxSectionLines)
    /\ identifier \in {run_identifier, sub_identifier}
    /\ fs_pc = "call"
    /\ subset = Returned(<<>>)
    /\ ClassifierIdle /\ PlanIdle

\* the call returns its dict
SectionReturn ==
    /\ fs_pc = "call"
    /\ get_file_section(fs_lines, identifier).err = "none"
    /\ subset' = get_file_section(fs_lines, identifier)
    /\ fs_pc' = "returned"
    /\ UNCHANGED <<fs_lines, identifier>>
    /\ UNCHANGED <<cvars, pvars>>

\* the call raises
SectionRaise ==
    /\ fs_pc = "call"
    /\ get_file_section(fs_lines, identifier).err # "none"
    /\ subset' = get_file_section(fs_lines, identifier)
    /\ fs_pc' = "raised"
    /\ UNCHANGED <<fs_lines, identifier>>
    /\ UNCHANGED <<cvars, pvars>>

SectionNext ==
    \/ SectionReturn
    \/ SectionRaise

SectionSpec == SectionInit /\ [][SectionNext]_vars

(***************************************************************************)
(* parse_night_plan, step by step                                          *)
(***************************************************************************)

PlanInit ==
    /\ file_exists \in BOOLEAN
    /\ file_text \in (IF file_exists THEN PlanTexts ELSE {""})
    /\ save_to_file \in BOOLEAN
    /\ plan_pc = "open"
    /\ plan_lines = <<>> /\ runs = <<>> /\ run_pos = 0
    /\ night_plan_dict = <<>>
    /\ warned = FALSE /\ saved = FALSE /\ plan_error = "none"
    /\ classified = <<>>
    /\ ClassifierIdle /\ SectionerIdle

\* lines 193-194
OpenFile ==
    /\ plan_pc = "open"
    /\ file_exists
    /\ plan_lines' = Readlines(file_text)
    /\ plan_pc' = "runs"
    /\ UNCHANGED <<file_exists, file_text, save_to_file, runs, run_pos,
                   night_plan_dict, warned, saved, plan_error>>
    /\ UNCHANGED <<cvars, fvars, classified>>

\* lines 195-197: the handler reads the name warning before it can warn
FileNotFound ==
    /\ plan_pc = "open"
    /\ ~file_exists
    /\ IF Resolves("warning")
       THEN /\ warned' = TRUE
            /\ plan_pc' = "returned"
            /\ plan_error' = plan_error
       ELSE /\ warned' = warned
            /\ plan_pc' = "raised"
            /\ plan_error' = "NameError"
    /\ UNCHANGED <<file_exists, file_text, save_to_file, plan_lines, runs,
                   run_pos, night_plan_dict, saved>>
    /\ UNCHANGED <<cvars, fvars, classified>>

\* line 199
SplitRuns ==
    /\ plan_pc = "runs"
    /\ LET r == get_file_section(plan_lines, run_identifier)
       IN  IF r.err # "none"
           THEN /\ plan_pc' = "raised"
                /\ plan_error' = r.err
                /\ runs' = runs
           ELSE /\ plan_pc' = "loop"
                /\ plan_error' = plan_error
                /\ runs' = r.val
    /\ run_pos' = 1
    /\ UNCHANGED <<file_exists, file_text, save_to_file, plan_lines,
                   night_plan_dict, warned, saved>>
    /\ UNCHANGED <<cvars, fvars, classified>>

\* lines 201-209: one run
ProcessRun ==
    /\ plan_pc = "loop"
    /\ run_pos <= Len(runs)
    /\ LET nights == RunNights(runs[run_pos].value)
       IN  IF nights.err # "none"
           THEN /\ plan_pc' = "raised"
                /\ plan_error' = nights.err
                /\ night_plan_dict' = night_plan_dict
           ELSE /\ plan_pc' = plan_pc
                /\ plan_error' = plan_error
                /\ night_plan_dict' = DictSet(night_plan_dict, runs[run_pos].key, nights.val)
    /\ run_pos' = run_pos + 1
    /\ classified' = Append(classified, RunClassified(runs[run_pos].value))
    /\ UNCHANGED <<file_exists, file_text, save_to_file, plan_lines, runs,
                   warned, saved>>
    /\ UNCHANGED <<cvars, fvars>>

\* line 211, save_to_file false: nothing to do
NoSave ==
    /\ plan_pc = "loop"
    /\ run_pos > Len(runs)
    /\ ~save_to_file
    /\ plan_pc' = "returned"
    /\ UNCHANGED <<file_exists, file_text, save_to_file, plan_lines, runs,
                   run_pos, night_plan_dict, warned, saved, plan_error>>
    /\ UNCHANGED <<cvars, fvars, classified>>

\* lines 211-213: open(output_path, ...) reads the name output_path first
Save ==
    /\ plan_pc = "loop"
    /\ run_pos > Len(runs)
    /\ save_to_file
    /\ IF Resolves("output_path")
       THEN /\ saved' = TRUE
            /\ plan_pc' = "returned"
            /\ plan_error' = plan_error
       ELSE /\ saved' = saved
            /\ plan_pc' = "raised"
            /\ plan_error' = "NameError"
    /\ UNCHANGED <<file_exists, file_text, save_to_file, plan_lines, runs,
                   run_pos, night_plan_dict, warned>>
    /\ UNCHANGED <<cvars, fvars, classified>>

PlanNext ==
    \/ OpenFile
    \/ FileNotFound
    \/ SplitRuns
    \/ ProcessRun
    \/ NoSave
    \/ Save

PlanSpec == PlanInit /\ [][PlanNext]_vars

(***************************************************************************)
(* Properties                                                              *)
(***************************************************************************)

RECURSIVE Flatten(_, _)
Flatten(seqs, k) == IF k > Len(seqs) THEN <<>> ELSE seqs[k] \o Flatten(seqs, k + 1)

\* what the lines of a block say: its targets, its calibrators and their tags
BlockTargets(b) == IF b = "TTC" THEN <<"MY Lup", "Z CMa">> ELSE <<"MY Lup">>

BlockCalibrators(b) == IF b = "TCC" THEN <<"HD12345", "HD2">> ELSE <<"HD12345">>

BlockTags(b) == IF b = "TCC" THEN <<"LN", "L">> ELSE <<"LN">>

\* the aligned NightEntry of a night made of these blocks: one group per target,
\* holding the calibrators of the target's block
AlignedEntry(blocks) ==
    [SCI |-> Flatten([k \in 1..Len(blocks) |-> BlockTargets(blocks[k])], 1),
     CAL |-> Flatten([k \in 1..Len(blocks) |->
                [t \in 1..Len(BlockTargets(blocks[k])) |-> BlockCalibrators(blocks[k])]], 1),
     TAG |-> Flatten([k \in 1..Len(blocks) |->
                [t \in 1..Len(BlockTargets(blocks[k])) |-> BlockTags(blocks[k])]], 1)]

\* C1: for a night made of blocks (one target and its calibrators, or two targets
\* and one calibrator) separated by one blank line, the NightEntry returned has
\* len(SCI) = len(CAL) = len(TAG) and CAL[i], TAG[i] are the calibrators and tags
\* of the block of SCI[i], whatever the number and order of the blocks.
C1_Alignment ==
    pc = "done" =>
        \A blocks \in BlockSeqs :
            section = BlockSection(blocks) => NightEntry(St) = AlignedEntry(blocks)

\* the identifier/tag pair is in two different groups of CAL/TAG, at the same place
InTwoGroups(id, tag) ==
    \E i, j \in 1..Len(cal_lst) :
        /\ i # j
        /\ \E k \in 1..Len(cal_lst[i]) : cal_lst[i][k] = id /\ tag_lst[i][k] = tag
        /\ \E k \in 1..Len(cal_lst[j]) : cal_lst[j][k] = id /\ tag_lst[j][k] = tag

\* two target records at p and p+1, then exactly one calibrator record
DoubleSciAt(p) ==
    /\ p + 2 < Len(lines)
    /\ LineKind(lines, p) = "target"
    /\ LineKind(lines, p + 1) = "target"
    /\ LineKind(lines, p + 2) = "calibrator"
    /\ p + 3 < Len(lines) => LineKind(lines, p + 3) # "calibrator"

\* C2: whenever the bounded interval holds two consecutive target records followed
\* by exactly one calibrator record, at any position (also as its last three
\* lines), the calibrator's identifier/tag pair ends up in two separate groups.
C2_DoubleSci ==
    pc = "done" =>
        \A p \in 0..(Len(lines) - 3) :
            DoubleSciAt(p) =>
                LET temp_cal == SplitOn(SplitOn(At(lines, p + 2), " ")[2], "_")
                IN  InTwoGroups(At(temp_cal, 2), At(temp_cal, 1))

\* C3: after any prefix of the lines, len(CAL) = len(TAG) and every group of CAL
\* is as long as the group of TAG at the same index.
C3_Shape ==
    /\ Len(cal_lst) = Len(tag_lst)
    /\ \A i \in 1..Len(cal_lst) : Len(cal_lst[i]) = Len(tag_lst[i])

\* a calibrator has been duplicated into an extra group (one group more than the
\* counter accounts for) and the line processed last was skipped on an error
C3_Witness ==
    /\ pc = "loop"
    /\ kind = "skipped"
    /\ Len(cal_lst) = counter + 2
    /\ cal_lst[counter + 2] # <<>>

\* the labels of the marker lines are pairwise different
DistinctLabels(list, indices) ==
    \A a, b \in 1..Len(indices) :
        a # b => RemoveNewlines(At(list, indices[a])) # RemoveNewlines(At(list, indices[b]))

\* C4: with k >= 1 marker lines of pairwise different texts, get_file_section
\* returns without error a mapping of exactly k entries; the section of marker j
\* runs from its line to the line before marker j+1, the last one to the end.
C4_Sections ==
    LET indices == MarkerIndices(fs_lines, identifier)
        k == Len(indices)
    IN  (fs_pc # "call" /\ k >= 1 /\ DistinctLabels(fs_lines, indices)) =>
            /\ subset.err = "none"
            /\ Len(subset.val) = k
            /\ \A j \in 1..k :
                 /\ subset.val[j].key = RemoveNewlines(At(fs_lines, indices[j]))
                 /\ subset.val[j].value =
                      Slice(fs_lines, indices[j],
                            IF j < k THEN indices[j + 1] ELSE Len(fs_lines))

\* C5: with at least one marker line, the sections returned, concatenated in
\* label-discovery order, are the input: no line lost, duplicated or reordered.
C5_RoundTrip ==
    (fs_pc # "call" /\ MarkerIndices(fs_lines, identifier) # <<>>) =>
        /\ subset.err = "none"
        /\ Flatten([j \in 1..Len(subset.val) |-> subset.val[j].value], 1) = fs_lines

\* C6: with no marker line, get_file_section returns exactly one entry, labelled
\* "full_" + identifier, whose section is the whole input unchanged.
C6_NoMarker ==
    (fs_pc # "call" /\ MarkerIndices(fs_lines, identifier) = <<>>) =>
        subset = Returned(<<[key |-> "full_" \o identifier, value |-> fs_lines]>>)

\* the call has returned on an input of several lines with no marker, one of which
\* holds the identifier inside a longer first token
C6_Witness ==
    /\ fs_pc = "returned"
    /\ identifier = "run"
    /\ MarkerIndices(fs_lines, identifier) = <<>>
    /\ Len(fs_lines) >= 2
    /\ \E k \in 1..Len(fs_lines) : fs_lines[k] = "running late\n"

\* the file has one run marker, then two night markers; the section of one night
\* holds a calibrator line and the section of the other does not
OneRunTwoNights(list) ==
    LET run_marks == MarkerIndices(list, run_identifier)
        night_marks == MarkerIndices(list, sub_identifier)
        first == Slice(list, At(night_marks, 0), At(night_marks, 1))
        second == Slice(list, At(night_marks, 1), Len(list))
        HasCal(sec) == \E k \in 1..Len(sec) : Contains("cal_", sec[k])
    IN  /\ Len(run_marks) = 1
        /\ Len(night_marks) = 2
        /\ At(run_marks, 0) < At(night_marks, 0)
        /\ DistinctLabels(list, night_marks)
        /\ HasCal(first) # HasCal(second)

\* the label of the night whose section holds the calibrator line
NightWithCalibrators(list) ==
    LET night_marks == MarkerIndices(list, sub_identifier)
        first == Slice(list, At(night_marks, 0), At(night_marks, 1))
    IN  IF \E k \in 1..Len(first) : Contains("cal_", first[k])
        THEN RemoveNewlines(At(list, At(night_marks, 0)))
        ELSE RemoveNewlines(At(list, At(night_marks, 1)))

\* C7: for a plan with one run marker and two night markers, one night with a
\* cal_ calibrator line and one without, parse_night_plan returns a mapping with
\* exactly one run key whose value has exactly one night key, the night with
\* calibrators.
C7_EndToEnd ==
    (/\ plan_pc \in {"returned", "raised"}
     /\ file_exists
     /\ ~save_to_file
     /\ OneRunTwoNights(plan_lines)) =>
        /\ plan_pc = "returned"
        /\ Len(night_plan_dict) = 1
        /\ DictKeys(night_plan_dict[1].value) = <<NightWithCalibrators(plan_lines)>>

\* C8: when the file does not exist, parse_night_plan warns and returns an empty
\* mapping; no error reaches the caller.
C8_MissingFile ==
    (plan_pc \in {"returned", "raised"} /\ ~file_exists) =>
        /\ plan_pc = "returned"
        /\ warned
        /\ night_plan_dict = <<>>

\* C9: for every sequence of lines of a night section, also one with no line
\* starting with a digit or no line holding "calibrator_find", the call returns a
\* NightEntry: no error escapes get_targets_calibrators_tags.
C9_NeverAborts == pc # "raised" /\ error = "none"

\* C10: a target record line made of the numeric prefix and a two-token name, with
\* nothing after the name or with an empty third field after it, appends exactly
\* one SCI entry, the two tokens joined by one space ("MY Lup").
C10_TwoTokenName ==
    [][(/\ pc = "loop"
        /\ index < Len(lines)
        /\ At(lines, index) \in {BareTargetLine, TargetLine})
       => sci_lst' = Append(sci_lst, "MY Lup")]_vars

\* C11 as stated: a target record line whose name has three tokens separated by
\* single spaces ("3: HD 56 Tau") appends the first two tokens only ("HD 56").
C11_Truncated ==
    [][(/\ pc = "loop"
        /\ index < Len(lines)
        /\ At(lines, index) \in {ThreeTokenLine, ThreeTokenColumnsLine})
       => sci_lst' = Append(sci_lst, "HD 56")]_vars

\* C11 amended: such a line appends the three tokens joined by single spaces
\* ("HD 56 Tau"); the third token is kept.
C11_ThreeTokens ==
    [][(/\ pc = "loop"
        /\ index < Len(lines)
        /\ At(lines, index) \in {ThreeTokenLine, ThreeTokenColumnsLine})
       => sci_lst' = Append(sci_lst, "HD 56 Tau")]_vars

\* the line processed last is "3: HD 56 Tau" and its name is the last SCI entry
C11_Witness ==
    /\ pc = "loop"
    /\ index >= 1
    /\ At(lines, index - 1) = ThreeTokenLine
    /\ kind = "target"
    /\ sci_lst # <<>>
    /\ sci_lst[Len(sci_lst)] = "HD 56 Tau"

\* the identifier and the tag a calibrator line of the inputs encodes
CalibratorId(line) == IF line = CalibratorLine THEN "HD12345" ELSE "HD2"

CalibratorTag(line) == IF line = CalibratorLine THEN "LN" ELSE "L"

\* C12: a calibrator record "<n>: cal_<TAG>_<ID> <more>" processed with the
\* pending split flag clear appends ID to the current group of CAL and TAG to the
\* current group of TAG, and leaves SCI, the number of groups and the counter.
C12_CalibratorRecord ==
    [][(/\ pc = "loop"
        /\ index < Len(lines)
        /\ At(lines, index) \in {CalibratorLine, SecondCalibratorLine}
        /\ ~double_sci)
       => /\ cal_lst' = [cal_lst EXCEPT
                           ![counter + 1] = Append(@, CalibratorId(At(lines, index)))]
          /\ tag_lst' = [tag_lst EXCEPT
                           ![counter + 1] = Append(@, CalibratorTag(At(lines, index)))]
          /\ sci_lst' = sci_lst
          /\ counter' = counter]_vars

\* two calibrator records have been appended to the second group, no duplication
\* having happened
C12_Witness ==
    /\ pc = "loop"
    /\ kind = "calibrator"
    /\ counter = 1
    /\ Len(cal_lst) = 2
    /\ cal_lst[2] = <<"HD12345", "HD2">>
    /\ tag_lst[2] = <<"LN", "L">>

\* the file was read and every run parsed without an error
Parsed ==
    /\ file_exists
    /\ Len(runs) >= 1
    /\ run_pos > Len(runs)
    /\ plan_error # "IndexError"

\* C13: with save_to_file true and the file parsed, parse_night_plan hands the
\* PlanDictionary to the serializer and returns it; only a failure of the
\* serialization itself can make the call fail.
C13_Save ==
    (plan_pc \in {"returned", "raised"} /\ Parsed /\ save_to_file) =>
        /\ plan_pc = "returned"
        /\ saved

\* C14: after every processed line the counter indexes the last group:
\* len(CAL) = len(TAG) = counter + 1.
C14_CounterIsLast ==
    pc \in {"loop", "done"} =>
        /\ Len(cal_lst) = counter + 1
        /\ Len(tag_lst) = counter + 1

\* C15: the pending split flag is false whenever a group boundary line is
\* processed and when the walk ends.
C15_NoLeak ==
    /\ (pc = "loop" /\ index < Len(lines) /\ LineKind(lines, index) = "boundary")
          => ~double_sci
    /\ pc = "done" => ~double_sci

\* C16: whenever processing a line raises an error and the line is skipped, SCI,
\* CAL, TAG, the counter and the pending split flag keep their values.
C16_SkipKeepsState ==
    [][(/\ pc = "loop"
        /\ index < Len(lines)
        /\ LineKind(lines, index) \in {"skipped", "skipped_target"})
       => UNCHANGED <<sci_lst, cal_lst, tag_lst, counter, double_sci>>]_vars

\* one of the raw lines is the token "cal_", as a whole element
HasCalElement(sec) == \E k \in 1..Len(sec) : sec[k] = "cal_"

FullTargetLines == {TargetLine, SecondTargetLine, ThreeTokenLine, ThreeTokenColumnsLine}

\* the name such a line carries
FullTargetName(line) ==
    IF line = TargetLine THEN "MY Lup"
    ELSE IF line = SecondTargetLine THEN "Z CMa" ELSE "HD 56 Tau"

====
